---- MODULE Spec2Model ----
(***************************************************************************)
(* Model of script-generator.js: the LaTeX table generator page.           *)
(*                                                                         *)
(* State: the closure-level variables of the DOMContentLoaded callback,    *)
(* the output textarea, the preview element and whether MathJax has       *)
(* typeset it, the settings item of localStorage and the alert raised by   *)
(* the latest handler.  Operations: the clicks on generateBtn (both of its *)
(* listeners), on resetBtn and on copyBtn, and the completion of the       *)
(* typesetting MathJax was asked for.  The click on downloadBtn and the    *)
(* load listener write to none of these and are steps that change nothing. *)
(* JavaScript strings are TLA+ strings; \o is string concatenation.        *)
(***************************************************************************)
EXTENDS Integers, Sequences, FiniteSets, TLC

VARIABLES closure, outputValue, tablePreview, previewTypeset, tableSettings,
          alertMsg

vars == <<closure, outputValue, tablePreview, previewTypeset, tableSettings,
          alertMsg>>

-----------------------------------------------------------------------------
(* Bounds of the model                                                     *)

\* largest row count typed into the form in the single-generation runs
MaxRows == 6
\* largest column count typed into the form in the single-generation runs
MaxColumns == 6
\* largest row / column count typed into the form in the session runs
MaxSessionCount == 2
\* decimal digits of the fixed-point model of Math.random() (finer than 4)
RandDigits == 5

-----------------------------------------------------------------------------
(* JavaScript values                                                       *)

\* the value of a let-variable that was never assigned
Undefined == "undefined"

\* a JavaScript number that is an integer, and NaN
Num(n) == [nan |-> FALSE, n |-> n]
NaN == [nan |-> TRUE, n |-> 0]

isNaN(x) == x.nan

\* x <= 0 of JavaScript: false when x is NaN
LeqZero(x) == ~x.nan /\ x.n <= 0

Min(a, b) == IF a <= b THEN a ELSE b

RECURSIVE Pow10(_)
Pow10(k) == IF k = 0 THEN 1 ELSE 10 * Pow10(k - 1)

\* String.prototype.repeat
RECURSIVE Repeat(_, _)
Repeat(s, n) == IF n <= 0 THEN "" ELSE s \o Repeat(s, n - 1)

\* the value of a digit character in radix up to 16, 99 for any other character
DigitVal(ch) ==
    CASE ch = "0" -> 0 [] ch = "1" -> 1 [] ch = "2" -> 2 [] ch = "3" -> 3
      [] ch = "4" -> 4 [] ch = "5" -> 5 [] ch = "6" -> 6 [] ch = "7" -> 7
      [] ch = "8" -> 8 [] ch = "9" -> 9
      [] ch \in {"a", "A"} -> 10 [] ch \in {"b", "B"} -> 11
      [] ch \in {"c", "C"} -> 12 [] ch \in {"d", "D"} -> 13
      [] ch \in {"e", "E"} -> 14 [] ch \in {"f", "F"} -> 15
      [] OTHER -> 99

\* the white space parseInt skips (StrWhiteSpaceChar), in this order: space,
\* tab, line feed, carriage return, form feed, vertical tab, no-break space
\* U+00A0, byte order mark U+FEFF, ogham space mark U+1680.  JavaScript skips
\* U+2000 to U+200A, U+2028, U+2029, U+202F, U+205F and U+3000 as well; the
\* lexer of TLA+ rejects them in a string, so no text of the model holds them.
IsWhiteSpace(ch) ==
    ch \in {" ", "\t", "\n", "\r", "\f", "", " ", "﻿", " "}

RECURSIVE TrimStart(_)
TrimStart(s) ==
    IF s # "" /\ IsWhiteSpace(Head(s)) THEN TrimStart(Tail(s)) ELSE s

\* the value of the longest prefix of s made of digits of the radix, read after
\* the digits already accumulated in acc; seen tells whether a digit was read
RECURSIVE ParseDigits(_, _, _, _)
ParseDigits(s, radix, acc, seen) ==
    IF s # "" /\ DigitVal(Head(s)) < radix
    THEN ParseDigits(Tail(s), radix, acc * radix + DigitVal(Head(s)), TRUE)
    ELSE [seen |-> seen, n |-> acc]

\* parseInt(string) with no radix argument
parseInt(str) ==
    LET s0 == TrimStart(str)
        neg == s0 # "" /\ Head(s0) = "-"
        s1 == IF s0 # "" /\ Head(s0) \in {"+", "-"} THEN Tail(s0) ELSE s0
        hex == Len(s1) >= 2 /\ SubSeq(s1, 1, 2) \in {"0x", "0X"}
        s2 == IF hex THEN SubSeq(s1, 3, Len(s1)) ELSE s1
        d == ParseDigits(s2, IF hex THEN 16 ELSE 10, 0, FALSE)
    IN  IF ~d.seen THEN NaN ELSE Num(IF neg THEN 0 - d.n ELSE d.n)

-----------------------------------------------------------------------------
(* Texts of the page.  The lexer of TLA+ rejects most of the Polish       *)
(* letters of the source in a string: the texts are written without their  *)
(* diacritics.                                                             *)

\* the text of the alert of line 245
InvalidAlert == "Prosze wprowadzic prawidlowa liczbe wierszy i kolumn."
\* the text of the alert of line 390
CopiedAlert == "Skopiowano wygenerowany kod w formacie TeX."
\* no alert was raised by the latest handler
NoAlert == ""
\* "Numer wiersza"
RowNumberLabel == "Numer wiersza"
\* the header label of line 311, with its trailing space
HeaderLabel == "Naglowek "
CellLabel == "Kolumna"

Hline == "\\hline\n"
RowEnd == " \\\\\n"
CellSep == " & "

-----------------------------------------------------------------------------
(* Math.random(), toFixed(4), parseFloat and Number.prototype.toString     *)
(* A value of the random source is given by RandDigits decimal digits: the *)
(* integer r, 0 <= r < RandScale, stands for the double nearest to         *)
(* r / RandScale.  A rounded value is an integer count of ten-thousandths. *)

RandScale == Pow10(RandDigits)
FixedScale == Pow10(4)

\* the k-th value (k = 0, 1, ...) Math.random() returns during one handler run
RandomDraw(tape, k) == (tape.seed + k * tape.stride) % RandScale

\* n as a decimal numeral of exactly w digits (leading zeros)
RECURSIVE Pad(_, _)
Pad(n, w) == IF w = 0 THEN "" ELSE Pad(n \div 10, w - 1) \o ToString(n % 10)

\* the bits of the fraction of a double
MantissaBits == 52

\* the least j, counted from j on, with r * 2^j >= RandScale, for r > 0
RECURSIVE BinaryExponent(_, _)
BinaryExponent(r, j) ==
    IF r >= RandScale THEN j ELSE BinaryExponent(2 * r, j + 1)

\* d.rem times 2^k, eight doublings at a time while that many are left: the
\* remainder modulo RandScale, and whether the quotient is odd
RECURSIVE DoubleTimes(_, _)
DoubleTimes(d, k) ==
    IF k = 0 THEN d
    ELSE LET m == IF k >= 8 THEN 256 ELSE 2
         IN  DoubleTimes([rem |-> (m * d.rem) % RandScale,
                          odd |-> ((m * d.rem) \div RandScale) % 2 = 1],
                         k - (IF k >= 8 THEN 8 ELSE 1))

\* the double nearest to r / RandScale is smaller than r / RandScale: its
\* 53-bit significand is r * 2^k / RandScale rounded to the nearest integer,
\* to the even one on a tie, and the rounding went down
DoubleIsBelow(r) ==
    /\ r > 0
    /\ LET d == DoubleTimes([rem |-> r, odd |-> FALSE],
                            BinaryExponent(r, 0) + MantissaBits)
       IN  \/ 0 < d.rem /\ 2 * d.rem < RandScale
           \/ 2 * d.rem = RandScale /\ ~d.odd

\* Number.prototype.toFixed(4) of the double r stands for: the count of
\* ten-thousandths nearest to the exact value of the double, the larger one
\* when two are as near, printed with four decimals.  When r / RandScale is
\* halfway between two counts, the double decides: it is seldom exactly
\* halfway, and lies below for about half of these r
toFixed4(r) ==
    LET unit == RandScale \div FixedScale
        lo == r \div unit
        rest == r % unit
        n == IF 2 * rest > unit THEN lo + 1
             ELSE IF 2 * rest < unit THEN lo
             ELSE IF DoubleIsBelow(r) THEN lo ELSE lo + 1
    IN  ToString(n \div FixedScale) \o "." \o Pad(n % FixedScale, 4)

\* parseFloat of a numeral "<digits>.<four digits>", in ten-thousandths
parseFloat(s) ==
    LET int == ParseDigits(s, 10, 0, FALSE)
        rest == SubSeq(s, Len(ToString(int.n)) + 1, Len(s))
        frac == IF rest # "" /\ Head(rest) = "."
                THEN ParseDigits(SubSeq(rest, 2, 5), 10, 0, FALSE).n
                ELSE 0
    IN  int.n * FixedScale + frac

RECURSIVE StripTrailingZeros(_)
StripTrailingZeros(s) ==
    IF s # "" /\ SubSeq(s, Len(s), Len(s)) = "0"
    THEN StripTrailingZeros(SubSeq(s, 1, Len(s) - 1))
    ELSE s

\* Number.prototype.toString of v ten-thousandths, v >= 0
NumberToString(v) ==
    IF v % FixedScale = 0
    THEN ToString(v \div FixedScale)
    ELSE ToString(v \div FixedScale) \o "."
             \o StripTrailingZeros(Pad(v % FixedScale, 4))

\* generateRandomValue(), given what Math.random() returns
generateRandomValue(r) == parseFloat(toFixed4(r))

applyFontStyle(text, fontStyle) ==
    IF fontStyle = "bold" THEN "\\textbf{" \o text \o "}" ELSE text

-----------------------------------------------------------------------------
(* The first click listener of generateBtn, step by step.  c is the record *)
(* of the closure-level variables, f the values of the form's fields.      *)

\* lines 204-240: the form is read into the closure variables
ReadForm(c, f) ==
    [c EXCEPT !.rows = parseInt(f.rows),
              !.columns = parseInt(f.columns),
              !.style = f.style,
              !.hasHeader = f.hasHeader,
              !.autoNumber = f.autoNumber,
              !.fontStyle = f.fontStyle,
              !.isNumeric = f.isNumeric]

\* the validation, were it to test for NaN alone
InvalidCountsNaNOnly(c) == isNaN(c.rows) \/ isNaN(c.columns)

\* line 244: the validation that makes the handler alert and return
InvalidCounts(c) ==
    isNaN(c.rows) \/ isNaN(c.columns) \/ LeqZero(c.rows) \/ LeqZero(c.columns)

PreviewLimit == 5

\* the bounds, were the preview not limited in its rows
ComputeBoundsNoRowLimit(c) ==
    LET pc == Min(c.columns.n, PreviewLimit)
    IN  [c EXCEPT !.previewRows = c.rows.n,
                  !.previewColumns = pc,
                  !.totalColumns =
                      IF c.autoNumber THEN c.columns.n + 1 ELSE c.columns.n,
                  !.totalPreviewColumns =
                      IF c.autoNumber THEN pc + 1 ELSE pc]

\* lines 253-269
ComputeBounds(c) ==
    LET pr == Min(c.rows.n, PreviewLimit)
        pc == Min(c.columns.n, PreviewLimit)
    IN  [c EXCEPT !.previewRows = pr,
                  !.previewColumns = pc,
                  !.totalColumns =
                      IF c.autoNumber THEN c.columns.n + 1 ELSE c.columns.n,
                  !.totalPreviewColumns =
                      IF c.autoNumber THEN pc + 1 ELSE pc]

\* the start of both strings, were += written for = at lines 276 and 281
StartOutputAppend(c) ==
    [c EXCEPT !.latexOutput = (IF @ = Undefined THEN "" ELSE @) \o "\\begin{tabular}{",
              !.latexPreview = (IF @ = Undefined THEN "" ELSE @) \o "\\begin{array}{"]

\* lines 276-281: both strings start afresh
StartOutput(c) ==
    [c EXCEPT !.latexOutput = "\\begin{tabular}{",
              !.latexPreview = "\\begin{array}{"]

\* the switch on style, were the bar after the row-number column forgotten
StyleTextNoBar(style, autoNumber, total) ==
    CASE style = "full" -> "|" \o Repeat("c|", total) \o "}\n" \o Hline
      [] OTHER -> Repeat("c ", total) \o "}\n"

\* lines 285-298: what the switch on style appends for a column total
StyleText(style, autoNumber, total) ==
    CASE style = "full" -> "|" \o Repeat("c|", total) \o "}\n" \o Hline
      [] style = "horizontal" ->
           IF autoNumber THEN "c|" \o Repeat("c ", total - 1) \o "}\n"
                         ELSE Repeat("c ", total) \o "}\n"
      [] OTHER -> Repeat("c ", total) \o "}\n"

AddStyle(c) ==
    [c EXCEPT !.latexOutput = @ \o StyleText(c.style, c.autoNumber, c.totalColumns),
              !.latexPreview =
                  @ \o StyleText(c.style, c.autoNumber, c.totalPreviewColumns)]

\* Array.from({length: n}, (_, i) => applyFontStyle(label)).join(" & "),
\* from index i on
RECURSIVE HeaderCells(_, _, _)
HeaderCells(i, n, fontStyle) ==
    IF i >= n THEN ""
    ELSE applyFontStyle(HeaderLabel \o ToString(i + 1), fontStyle)
             \o (IF i + 1 < n THEN CellSep ELSE "")
             \o HeaderCells(i + 1, n, fontStyle)

\* lines 301-328
AddHeader(c) ==
    IF ~c.hasHeader THEN c
    ELSE LET num == IF c.autoNumber
                    THEN applyFontStyle(RowNumberLabel, c.fontStyle) \o CellSep
                    ELSE ""
             rule == IF c.style # "none" THEN Hline ELSE ""
         IN  [c EXCEPT
                !.latexOutput = @ \o num
                    \o HeaderCells(0, c.columns.n, c.fontStyle) \o RowEnd \o rule,
                !.latexPreview = @ \o num
                    \o HeaderCells(0, c.previewColumns, c.fontStyle) \o RowEnd \o rule]

\* line 345-346: the text of data cell j (from 0) of row i (from 1)
CellText(c, tape, i, j) ==
    IF c.isNumeric
    THEN NumberToString(generateRandomValue(RandomDraw(tape, (i - 1) * c.columns.n + j)))
    ELSE CellLabel \o ToString(j + 1)

\* the inner loop's pass, were the preview cell to draw a random value of its own
CellStepRedraw(c, tape, i, j, row) ==
    LET cellText == CellText(c, tape, i, j)
        again == CellText(c, tape, i, j + c.rows.n * c.columns.n)
        previewText == IF c.isNumeric THEN again ELSE cellText
    IN  [rowOutput |-> row.rowOutput \o applyFontStyle(cellText, c.fontStyle)
                          \o (IF j < c.columns.n - 1 THEN CellSep ELSE ""),
         rowPreview |->
             IF j < c.previewColumns
             THEN row.rowPreview \o applyFontStyle(previewText, c.fontStyle)
                      \o (IF j < c.previewColumns - 1 THEN CellSep ELSE "")
             ELSE row.rowPreview]

\* lines 345-350: one pass of the inner loop; row holds rowOutput and rowPreview
CellStep(c, tape, i, j, row) ==
    LET cellText == CellText(c, tape, i, j)
    IN  [rowOutput |-> row.rowOutput \o applyFontStyle(cellText, c.fontStyle)
                          \o (IF j < c.columns.n - 1 THEN CellSep ELSE ""),
         rowPreview |->
             IF j < c.previewColumns
             THEN row.rowPreview \o applyFontStyle(cellText, c.fontStyle)
                      \o (IF j < c.previewColumns - 1 THEN CellSep ELSE "")
             ELSE row.rowPreview]

\* lines 344-351: the inner loop from column j on
RECURSIVE CellLoop(_, _, _, _, _)
CellLoop(c, tape, i, j, row) ==
    IF j < c.columns.n
    THEN CellLoop(c, tape, i, j + 1, CellStep(c, tape, i, j, row))
    ELSE row

\* lines 336-341: the row-number cell both row strings start with
RowStart(c, i) ==
    IF c.autoNumber THEN applyFontStyle(ToString(i), c.fontStyle) \o CellSep ELSE ""

\* the rule line after a data row, were the last row not excepted
RuleAfterEveryRow(c, i) ==
    IF c.style \in {"horizontal", "full"} /\ i <= c.rows.n THEN Hline ELSE ""

\* lines 354-361: the rule line after data row i, in the full output
RuleAfterRow(c, i) ==
    IF c.style \in {"horizontal", "full"} /\ i < c.rows.n THEN Hline ELSE ""

\* the preview's rule line, were it emitted up to the last previewed row
PreviewRuleUpToLimit(c, i) ==
    IF c.style \in {"horizontal", "full"} /\ i < c.rows.n /\ i <= c.previewRows
    THEN Hline ELSE ""

\* lines 356 and 360: the rule line after data row i, in the preview
PreviewRuleAfterRow(c, i) ==
    IF c.style \in {"horizontal", "full"} /\ i < c.rows.n /\ i < c.previewRows
    THEN Hline ELSE ""

\* the outer loop's pass, were the rows joined by the row end, not ended by it
RowStepJoined(c, tape, i) ==
    LET row == CellLoop(c, tape, i, 0,
                        [rowOutput |-> RowStart(c, i), rowPreview |-> RowStart(c, i)])
        end == IF i < c.rows.n THEN RowEnd ELSE "\n"
    IN  [c EXCEPT
           !.latexOutput = @ \o row.rowOutput \o end \o RuleAfterRow(c, i),
           !.latexPreview =
               @ \o (IF i <= c.previewRows THEN row.rowPreview \o RowEnd ELSE "")
                 \o PreviewRuleAfterRow(c, i)]

\* lines 332-361: one pass of the outer loop
RowStep(c, tape, i) ==
    LET row == CellLoop(c, tape, i, 0,
                        [rowOutput |-> RowStart(c, i), rowPreview |-> RowStart(c, i)])
    IN  [c EXCEPT
           !.latexOutput = @ \o row.rowOutput \o RowEnd \o RuleAfterRow(c, i),
           !.latexPreview =
               @ \o (IF i <= c.previewRows THEN row.rowPreview \o RowEnd ELSE "")
                 \o PreviewRuleAfterRow(c, i)]

\* lines 331-362: the outer loop from row i on
RECURSIVE RowLoop(_, _, _)
RowLoop(c, tape, i) ==
    IF i <= c.rows.n THEN RowLoop(RowStep(c, tape, i), tape, i + 1) ELSE c

\* lines 365-372: the closing rule of style full, and the close directives
CloseTable(c) ==
    LET rule == IF c.style = "full" THEN Hline ELSE ""
    IN  [c EXCEPT !.latexOutput = @ \o rule \o "\\end{tabular}",
                  !.latexPreview = @ \o rule \o "\\end{array}"]

\* lines 253-372: the closure variables after a run that passed the validation
BuildTable(c, tape) ==
    CloseTable(RowLoop(AddHeader(AddStyle(StartOutput(ComputeBounds(c)))), tape, 1))

\* the states of the preview element with respect to MathJax: it is empty,
\* its div was handed to MathJax.typesetPromise, the div was typeset
NothingToTypeset == "nothing"
TypesetPending == "pending"
TypesetDone == "typeset"

\* lines 424-428: the content renderTablePreview gives the preview element, a
\* div whose markup is the string between the inline-math delimiters
renderTablePreview(latex) == "<div>" \o "\\(" \o latex \o "\\)" \o "</div>"

\* lines 199-379: the whole listener.  page holds the closure variables, the
\* output field, the preview element, its typesetting and the alert; f is the
\* form, tape the random source.  Line 429 hands the new div to MathJax, which
\* typesets it later
GenerateHandler(page, f, tape) ==
    LET c == ReadForm(page.closure, f)
    IN  IF InvalidCounts(c)
        THEN [page EXCEPT !.closure = c, !.alertMsg = InvalidAlert]
        ELSE LET d == BuildTable(c, tape)
             IN  [closure |-> d,
                  outputValue |-> d.latexOutput,
                  tablePreview |-> renderTablePreview(d.latexPreview),
                  previewTypeset |-> TypesetPending,
                  alertMsg |-> NoAlert]

\* lines 435-446: saveSettings, the second listener of the same click
saveSettings(f) ==
    [rows |-> f.rows, columns |-> f.columns, style |-> f.style,
     hasHeader |-> f.hasHeader, autoNumber |-> f.autoNumber,
     fontStyle |-> f.fontStyle, isNumeric |-> f.isNumeric]

-----------------------------------------------------------------------------
(* The state machine                                                       *)

\* lines 79-164: the closure variables are declared and not assigned
InitClosure ==
    [rows |-> Undefined, columns |-> Undefined, style |-> Undefined,
     hasHeader |-> Undefined, autoNumber |-> Undefined, fontStyle |-> Undefined,
     isNumeric |-> Undefined, previewRows |-> Undefined,
     previewColumns |-> Undefined, totalColumns |-> Undefined,
     totalPreviewColumns |-> Undefined, latexOutput |-> Undefined,
     latexPreview |-> Undefined]

\* localStorage holds no "tableSettings" item before anything was saved; the
\* variable is the empty sequence then, and <<settings>> once saved
NoSettings == <<>>

\* localStorage outlives the page: the forms a click of an earlier visit may
\* have saved, one that generated a table and one that failed
EarlierForms ==
    {[rows |-> "2", columns |-> "2", style |-> "none", hasHeader |-> FALSE,
      autoNumber |-> FALSE, fontStyle |-> "normal", isNumeric |-> FALSE],
     [rows |-> "", columns |-> "3", style |-> "full", hasHeader |-> TRUE,
      autoNumber |-> FALSE, fontStyle |-> "bold", isNumeric |-> TRUE]}

\* what the item may hold when the page is loaded
StoredSettings == {NoSettings} \cup {<<saveSettings(f)>> : f \in EarlierForms}

Page == [closure |-> closure, outputValue |-> outputValue,
         tablePreview |-> tablePreview, previewTypeset |-> previewTypeset,
         alertMsg |-> alertMsg]

Init ==
    /\ closure = InitClosure
    /\ outputValue = ""
    /\ tablePreview = ""
    /\ previewTypeset = NothingToTypeset
    /\ tableSettings \in StoredSettings
    /\ alertMsg = NoAlert

\* a click on generateBtn with the form holding f: both listeners run
GenerateClick(f, tape) ==
    \E p \in {GenerateHandler(Page, f, tape)} :
        /\ closure' = p.closure
        /\ outputValue' = p.outputValue
        /\ tablePreview' = p.tablePreview
        /\ previewTypeset' = p.previewTypeset
        /\ alertMsg' = p.alertMsg
        /\ tableSettings' = <<saveSettings(f)>>

\* lines 399-403: a click on resetBtn (form.reset() acts on the form alone,
\* whose fields are an input of the next click).  A div still waiting for
\* MathJax leaves the page with the content of the preview element
ResetClick ==
    /\ outputValue' = ""
    /\ tablePreview' = ""
    /\ previewTypeset' = NothingToTypeset
    /\ alertMsg' = NoAlert
    /\ UNCHANGED <<closure, tableSettings>>

\* lines 387-391: a click on copyBtn.  The text of the output field goes to
\* the system clipboard, which is no part of the page, and the alert is raised
CopyClick ==
    /\ alertMsg' = CopiedAlert
    /\ UNCHANGED <<closure, outputValue, tablePreview, previewTypeset,
                   tableSettings>>

\* line 429: the promise of MathJax.typesetPromise is not awaited; MathJax
\* typesets the div of the preview element in a later task.  What the div
\* shows then is MathJax's rendering of the markup tablePreview holds
MathJaxTypeset ==
    /\ previewTypeset = TypesetPending
    /\ previewTypeset' = TypesetDone
    /\ UNCHANGED <<closure, outputValue, tablePreview, tableSettings, alertMsg>>

-----------------------------------------------------------------------------
(* Inputs: what the user may have typed and chosen before a click          *)

Styles == {"none", "horizontal", "full"}
FontStyles == {"normal", "bold"}

\* texts of the number fields that are not numerals of a positive integer
Malformed == {"", "abc", "0", "-1", "2.5", "3x", "\f3"}
\* the ones the session runs use: missing, non-numeric, zero, negative
SessionMalformed == {"", "abc", "0", "-1"}
\* the one the history runs use
HistoryMalformed == {""}

Numerals(max) == {ToString(n) : n \in 1..max}

Forms(rowTexts, columnTexts, styles, checks, fontStyles) ==
    [rows : rowTexts, columns : columnTexts, style : styles, hasHeader : checks,
     autoNumber : checks, fontStyle : fontStyles, isNumeric : checks]

\* single-generation runs: every combination of the choices
GenForms ==
    Forms(Numerals(MaxRows) \cup Malformed, Numerals(MaxColumns) \cup Malformed,
          Styles, BOOLEAN, FontStyles)

\* the random sources of the single-generation runs: the first draws values
\* halfway between two counts of ten-thousandths, the last values close to 1
Tapes == {[seed |-> 0, stride |-> 15],
          [seed |-> 50000, stride |-> 12346],
          [seed |-> RandScale - 3, stride |-> 10]}

\* session runs: every kind of invalid count, every style, the other choices
\* left as they are when nothing is ticked
SessionForms ==
    Forms(Numerals(MaxSessionCount) \cup SessionMalformed,
          Numerals(MaxSessionCount) \cup SessionMalformed,
          Styles, {FALSE}, {"normal"})

\* the choices of a form other than its two counts
Choices(f) == <<f.style, f.hasHeader, f.autoNumber, f.fontStyle, f.isNumeric>>
DefaultChoices == <<"none", FALSE, FALSE, "normal", FALSE>>

\* history runs: forms that differ from the default choices in at most one
\* field; the failed attempts are those with no row count
HistoryForms ==
    {f \in Forms(Numerals(MaxSessionCount) \cup HistoryMalformed,
                 Numerals(MaxSessionCount), Styles, BOOLEAN, FontStyles) :
        Cardinality({k \in DOMAIN DefaultChoices :
                        Choices(f)[k] # DefaultChoices[k]}) <= 1}

SessionTapes == {[seed |-> 50000, stride |-> 12346]}

\* a random source for runs that draw nothing from it
AnyTape == [seed |-> 0, stride |-> 0]

\* the random sources to tell apart for the form f: the source is read for
\* numeric cells alone
TapesFor(f, tapes) == IF f.isNumeric THEN tapes ELSE {AnyTape}

-----------------------------------------------------------------------------
(* Specifications                                                          *)

\* a session: any sequence of clicks on generateBtn, resetBtn and copyBtn,
\* with the typesetting of a preview done at any time after its generation
Generate ==
    \E f \in SessionForms : \E tape \in TapesFor(f, SessionTapes) : GenerateClick(f, tape)

Next == Generate \/ ResetClick \/ CopyClick \/ MathJaxTypeset

Spec == Init /\ [][Next]_vars

\* a session over forms that vary every choice
GenerateHistory ==
    \E f \in HistoryForms : \E tape \in TapesFor(f, SessionTapes) : GenerateClick(f, tape)

NextHistory == GenerateHistory \/ ResetClick \/ CopyClick \/ MathJaxTypeset

SpecHistory == Init /\ [][NextHistory]_vars

\* the first click on generateBtn after the page was loaded, for every form:
\* the strings one run of the handler generates
FirstGenerate ==
    /\ closure = InitClosure
    /\ \E f \in GenForms : \E tape \in TapesFor(f, Tapes) : GenerateClick(f, tape)

SpecGenerate == Init /\ [][FirstGenerate]_vars

-----------------------------------------------------------------------------
(* Reading a generated string back: lines, rows and cells                  *)

\* the positions at which pat occurs in s
Occurrences(s, pat) ==
    {k \in 1..(Len(s) - Len(pat) + 1) : SubSeq(s, k, k + Len(pat) - 1) = pat}

\* the pieces of s between the occurrences of sep (which do not overlap in
\* any string the page generates)
Split(s, sep) ==
    LET occ == Occurrences(s, sep)
        m == Cardinality(occ)
        pos(j) == CHOOSE k \in occ : Cardinality({x \in occ : x < k}) = j - 1
        first(j) == IF j = 1 THEN 1 ELSE pos(j - 1) + Len(sep)
        last(j) == IF j = m + 1 THEN Len(s) ELSE pos(j) - 1
    IN  [j \in 1..(m + 1) |-> SubSeq(s, first(j), last(j))]

CountOccurrences(s, pat) == Len(Split(s, pat)) - 1

StartsWith(s, pre) == Len(s) >= Len(pre) /\ SubSeq(s, 1, Len(pre)) = pre
EndsWith(s, suf) == Len(s) >= Len(suf) /\ SubSeq(s, Len(s) - Len(suf) + 1, Len(s)) = suf

Lines(s) == Split(s, "\n")

RowEndMarker == "\\\\"
RuleLine == "\\hline"

IsRowLine(line) == EndsWith(line, " " \o RowEndMarker)

\* the cells of a row line
CellsOf(line) == Split(SubSeq(line, 1, Len(line) - Len(RowEndMarker) - 1), CellSep)

\* the rows of a generated string, each the sequence of its cell texts
RowsOf(s) ==
    LET ls == Lines(s)
        F[k \in 0..Len(ls)] ==
            IF k = 0 THEN <<>>
            ELSE IF IsRowLine(ls[k]) THEN Append(F[k - 1], CellsOf(ls[k]))
            ELSE F[k - 1]
    IN  F[Len(ls)]

\* rule for a rule line, row for a row, other for any other line
LineKinds(s) ==
    LET ls == Lines(s)
    IN  [k \in 1..Len(ls) |->
            IF ls[k] = RuleLine THEN "rule"
            ELSE IF IsRowLine(ls[k]) THEN "row" ELSE "other"]

\* a cell text without the bold directive around it
Unstyled(cell) ==
    IF StartsWith(cell, "\\textbf{") /\ EndsWith(cell, "}")
    THEN SubSeq(cell, 9, Len(cell) - 1)
    ELSE cell

-----------------------------------------------------------------------------
(* The configuration a displayed table was generated from                  *)

\* the latest click generated a table, which is displayed
Generated == alertMsg = NoAlert /\ outputValue # ""

Settings == tableSettings[1]

IsDigits(s) == \A k \in 1..Len(s) : DigitVal(SubSeq(s, k, k)) < 10

\* s is the decimal numeral of a positive integer
IsPositiveNumeral(s) == s # "" /\ IsDigits(s) /\ Head(s) # "0"

NumeralValue(s) == ParseDigits(s, 10, 0, FALSE).n

\* the displayed table was generated from a valid configuration
GeneratedValid ==
    /\ Generated
    /\ IsPositiveNumeral(Settings.rows)
    /\ IsPositiveNumeral(Settings.columns)

CfgRows == NumeralValue(Settings.rows)
CfgColumns == NumeralValue(Settings.columns)
HeaderRows == IF Settings.hasHeader THEN 1 ELSE 0
NumberCells == IF Settings.autoNumber THEN 1 ELSE 0

\* the markup handed to the preview renderer, read back from the element:
\* what stands between "<div>\(" and "\)</div>"
PreviewLatex ==
    SubSeq(tablePreview, Len("<div>\\(") + 1, Len(tablePreview) - Len("\\)</div>"))

\* the page as it is after construction
InitPage == [closure |-> InitClosure, outputValue |-> "", tablePreview |-> "",
             previewTypeset |-> NothingToTypeset, alertMsg |-> NoAlert]

\* what the first click after construction produces for the form f
FirstCall(f) == GenerateHandler(InitPage, f, AnyTape)

-----------------------------------------------------------------------------
(* Claims about a session (Spec, SpecHistory)                              *)

\* the text of a count field is missing, non-numeric, zero or negative
IsIntegerNumeral(s) ==
    \/ s # "" /\ IsDigits(s)
    \/ Len(s) >= 2 /\ Head(s) = "-" /\ IsDigits(Tail(s))
HasNoDigit(s) == \A k \in 1..Len(s) : DigitVal(SubSeq(s, k, k)) >= 10
IsZeroOrNegative(s) ==
    IsIntegerNumeral(s) /\ (Head(s) = "-" \/ NumeralValue(s) = 0)
BadCount(s) == s = "" \/ HasNoDigit(s) \/ IsZeroOrNegative(s)

\* the step is a click on generateBtn: it is none of the other steps
GenerateStep == ~ResetClick /\ ~CopyClick /\ ~MathJaxTypeset

\* C1: a generate attempt whose row or column count is missing, non-numeric,
\* zero or negative raises the error alert and leaves the output field and
\* the preview exactly as they were, whatever happened before
C1_InvalidAttemptKeepsDisplay ==
    [][(GenerateStep /\ (BadCount(Settings'.rows) \/ BadCount(Settings'.columns)))
          => /\ alertMsg' = InvalidAlert
             /\ outputValue' = outputValue
             /\ tablePreview' = tablePreview
             /\ previewTypeset' = previewTypeset]_vars

\* an invalid attempt was made while a generated table was displayed, and the
\* table is still displayed
C1_Witness ==
    /\ alertMsg = InvalidAlert
    /\ BadCount(Settings.rows) \/ BadCount(Settings.columns)
    /\ outputValue # ""
    /\ tablePreview = renderTablePreview(closure.latexPreview)
    /\ previewTypeset = TypesetDone

\* C8: a generation with numericCells unset displays the strings the first
\* call after construction produces for the same form, whatever the earlier
\* clicks left in the closure variables
C8_ResultIndependentOfHistory ==
    [][(GenerateStep /\ Generated' /\ ~Settings'.isNumeric)
          => \A first \in {FirstCall(Settings')} :
                 /\ outputValue' = first.outputValue
                 /\ tablePreview' = first.tablePreview]_vars

\* a state with leftovers of a valid generation, a reset and a failed attempt,
\* from which the next generation starts
C8_Witness ==
    /\ alertMsg = InvalidAlert
    /\ outputValue = ""
    /\ closure.latexOutput # Undefined
    /\ isNaN(closure.rows)
    /\ closure.previewRows = MaxSessionCount

-----------------------------------------------------------------------------
(* Claims about one generation (SpecGenerate)                              *)

\* C2 (as claimed): no table is generated unless both counts are the text of
\* a positive integer, white space before it aside
C2_NonIntegerRejected ==
    Generated => /\ IsPositiveNumeral(TrimStart(Settings.rows))
                 /\ IsPositiveNumeral(TrimStart(Settings.columns))

\* C3: the full output holds rows row-end markers, plus one with a header
C3_RowEndCount ==
    GeneratedValid =>
        CountOccurrences(outputValue, RowEndMarker) = CfgRows + HeaderRows

C3_Witness ==
    /\ GeneratedValid
    /\ Settings.hasHeader /\ Settings.style = "full" /\ Settings.fontStyle = "bold"
    /\ CfgRows > PreviewLimit
    /\ CountOccurrences(outputValue, RowEndMarker) = CfgRows + 1

\* a row of header labels
IsHeaderRow(cells) == StartsWith(Unstyled(cells[Len(cells)]), HeaderLabel)

\* C4: the preview has min(rows, 5) data rows, one header row more with a
\* header, and each of its rows has min(columns, 5) cells, one more with
\* row numbers
C4_PreviewShape ==
    GeneratedValid =>
        LET rs == RowsOf(PreviewLatex)
            headers == {k \in 1..Len(rs) : IsHeaderRow(rs[k])}
        IN  /\ Len(rs) = Min(CfgRows, 5) + HeaderRows
            /\ headers = 1..HeaderRows
            /\ \A k \in 1..Len(rs) : Len(rs[k]) = Min(CfgColumns, 5) + NumberCells

C4_Witness ==
    /\ GeneratedValid
    /\ CfgRows > 5 /\ CfgColumns > 5
    /\ Settings.hasHeader /\ Settings.autoNumber
    /\ Len(RowsOf(PreviewLatex)) = 6
    /\ Len(RowsOf(outputValue)) = CfgRows + 1

\* C5: every cell of the preview has the text of the cell at the same
\* position of the full output
C5_SharedCellsIdentical ==
    GeneratedValid =>
        LET full == RowsOf(outputValue)
            prev == RowsOf(PreviewLatex)
        IN  /\ Len(prev) <= Len(full)
            /\ \A r \in 1..Len(prev) :
                 /\ Len(prev[r]) <= Len(full[r])
                 /\ \A k \in 1..Len(prev[r]) : prev[r][k] = full[r][k]

\* numeric cells, more rows and columns than the preview shows, and two
\* cells of a row that differ
C5_Witness ==
    /\ GeneratedValid
    /\ Settings.isNumeric /\ Settings.autoNumber /\ ~Settings.hasHeader
    /\ CfgRows > 5 /\ CfgColumns > 5
    /\ LET prev == RowsOf(PreviewLatex)
       IN  prev[1][2] # prev[1][3] /\ prev[1][2] = RowsOf(outputValue)[1][2]

\* the text of a number v with 0 <= v < 1 and at most four decimal digits
IsUnitIntervalText(t) ==
    \/ t = "0"
    \/ /\ Len(t) \in 3..6
       /\ SubSeq(t, 1, 2) = "0."
       /\ IsDigits(SubSeq(t, 3, Len(t)))

\* C6 (as claimed): with numericCells set every data cell is a number v with
\* 0 <= v < 1 of at most four decimal digits
C6_NumericCellsBelowOne ==
    (GeneratedValid /\ Settings.isNumeric) =>
        LET full == RowsOf(outputValue)
        IN  \A r \in (HeaderRows + 1)..Len(full) :
              \A k \in (NumberCells + 1)..Len(full[r]) :
                 IsUnitIntervalText(Unstyled(full[r][k]))

TotalColumns == CfgColumns + NumberCells

\* "c" once per column, separated by single spaces
RECURSIVE SpacedColumns(_)
SpacedColumns(n) == IF n <= 1 THEN Repeat("c", n) ELSE "c " \o SpacedColumns(n - 1)

\* the column spec as claimed
ClaimedColumnSpec ==
    CASE Settings.style = "full" -> "|" \o Repeat("c|", TotalColumns)
      [] Settings.style = "horizontal" /\ Settings.autoNumber ->
           "c|" \o SpacedColumns(TotalColumns - 1)
      [] OTHER -> SpacedColumns(TotalColumns)

\* the column spec of the code: one entry per column, read from the left
ColumnEntry(k) ==
    IF Settings.style = "full" THEN "c|"
    ELSE IF Settings.style = "horizontal" /\ Settings.autoNumber /\ k = 1 THEN "c|"
    ELSE "c "

AmendedColumnSpec ==
    LET F[k \in 0..TotalColumns] ==
            IF k = 0 THEN (IF Settings.style = "full" THEN "|" ELSE "")
            ELSE F[k - 1] \o ColumnEntry(k)
    IN  F[TotalColumns]

FirstLine == Lines(outputValue)[1]
LastLine == Lines(outputValue)[Len(Lines(outputValue))]

\* C7 (as claimed): the full output opens with \begin{tabular}{spec}, spec
\* having no space after its last column, and ends with \end{tabular}
C7_OpenCloseAsClaimed ==
    GeneratedValid =>
        /\ FirstLine = "\\begin{tabular}{" \o ClaimedColumnSpec \o "}"
        /\ LastLine = "\\end{tabular}"

\* C7 (amended): the same, with a space after every column of the spec that
\* is not followed by a bar, the last one included
C7_OpenCloseAmended ==
    GeneratedValid =>
        /\ FirstLine = "\\begin{tabular}{" \o AmendedColumnSpec \o "}"
        /\ LastLine = "\\end{tabular}"

C7_Witness ==
    /\ GeneratedValid
    /\ Settings.style = "horizontal" /\ Settings.autoNumber
    /\ CfgColumns = 2
    /\ FirstLine = "\\begin{tabular}{c|c c }"
    /\ LastLine = "\\end{tabular}"

\* the kinds of the lines of the full output, as the claim places them
ExpectedKinds ==
    LET st == Settings.style
        rule(b) == IF b THEN <<"rule">> ELSE <<>>
        header == IF Settings.hasHeader THEN <<"row">> \o rule(st # "none") ELSE <<>>
        Data[i \in 0..CfgRows] ==
            IF i = 0 THEN <<>>
            ELSE Data[i - 1] \o <<"row">>
                   \o rule(IF i < CfgRows THEN st \in {"horizontal", "full"}
                                          ELSE st = "full")
    IN  <<"other">> \o rule(st = "full") \o header \o Data[CfgRows] \o <<"other">>

ExpectedRuleCount ==
    CASE Settings.style = "full" -> CfgRows + 1 + HeaderRows
      [] Settings.style = "horizontal" -> (CfgRows - 1) + HeaderRows
      [] OTHER -> 0

\* C9: the rule lines of the full output stand after the open directive for
\* style full, after the header row unless the style is none, after every
\* data row but the last for horizontal and full, and after the last data
\* row for full; nowhere else
C9_RulePlacement ==
    GeneratedValid =>
        /\ LineKinds(outputValue) = ExpectedKinds
        /\ CountOccurrences(outputValue, RuleLine) = ExpectedRuleCount

C9_Witness ==
    /\ GeneratedValid
    /\ Settings.style = "horizontal" /\ Settings.hasHeader
    /\ CfgRows = 3
    /\ LineKinds(outputValue) = <<"other", "row", "rule", "row", "rule", "row",
                                  "rule", "row", "other">>

\* the form with its counts cut down to what the preview shows
ReducedSettings ==
    [Settings EXCEPT !.rows = ToString(Min(CfgRows, 5)),
                     !.columns = ToString(Min(CfgColumns, 5))]

\* a full output with array written for tabular in its two directives
AsArray(s) ==
    "\\begin{array}"
        \o SubSeq(s, Len("\\begin{tabular}") + 1, Len(s) - Len("\\end{tabular}"))
        \o "\\end{array}"

\* C10: with numericCells unset, the preview is the full output of the same
\* form with rows and columns cut down to 5, array written for tabular; it
\* has one open and one close directive
C10_PreviewIsReducedTable ==
    (GeneratedValid /\ ~Settings.isNumeric) =>
        /\ PreviewLatex = AsArray(FirstCall(ReducedSettings).outputValue)
        /\ CountOccurrences(PreviewLatex, "\\begin{") = 1
        /\ CountOccurrences(PreviewLatex, "\\end{") = 1

\* more rows than the preview shows: no rule between the last previewed row
\* and the close for horizontal
C10_Witness ==
    /\ GeneratedValid /\ ~Settings.isNumeric
    /\ Settings.style = "horizontal"
    /\ CfgRows > 5 /\ CfgColumns > 5
    /\ LET ks == LineKinds(PreviewLatex)
       IN  ks[Len(ks) - 1] = "row"
    /\ PreviewLatex # AsArray(outputValue)

====
